---- MODULE Spec2Model ----
(***************************************************************************)
(* Model of the Soroban staking contract                                   *)
(*   src/contract/contracts/src/contract.rs  (StakingContract)             *)
(* and of its life-cycle test                                              *)
(*   src/contract/contracts/src/test.rs      (test_staking_lifecycle).     *)
(*                                                                         *)
(* Number representation.  TLC's integers are 32 bits wide, the contract's *)
(* are i128 / u64, so two quantities are kept in limbs:                    *)
(*   - reward_per_token_stored / reward_per_token_paid (scaled by          *)
(*     PRECISION = 10^9) are [hi, lo] with value hi * PRECISION + lo,      *)
(*     0 <= lo < PRECISION;                                                *)
(*   - lock_duration (u64 seconds) is [hi, lo] with value hi * 2^16 + lo,  *)
(*     0 <= lo < 2^16.                                                     *)
(* All arithmetic on them is exact; an intermediate that leaves 32 bits    *)
(* makes TLC stop with an overflow error, it is never wrapped silently.    *)
(* reward_rate is drawn >= 0 and amounts and shares are >= 0 in every      *)
(* reachable state, so Rust's truncating i128 division is floor division.  *)
(***************************************************************************)
EXTENDS Integers, Sequences, FiniteSets, TLC

VARIABLES
    now,                      \* env.ledger().timestamp()
    config,                   \* DataKey::Config: << >> (absent) or <<Config>>
    tiers,                    \* tier registry: tier_id -> Tier, on the ids that are set
    users,                    \* positions: user -> UserInfo, on the users that have a record
    total_shares,
    reward_per_token_stored,  \* wide number, scale PRECISION
    last_update_time,
    balances,                 \* asset ledger: token -> holder -> balance
    last,                     \* history: the last call, its outcome and what it moved
    credited,                 \* history: sum of every pending amount added to a position
    init_time,                \* history: ledger time of the successful initialize
    calls,                    \* history: number of steps taken so far
    hist,                     \* history: calls of the life-cycle script, in order
                              \*          (Solo: the most recent successful stake)
    staked_time               \* history: seconds that passed while total_shares > 0

vars == <<now, config, tiers, users, total_shares, reward_per_token_stored,
          last_update_time, balances, last, credited, init_time, calls, hist,
          staked_time>>

----------------------------------------------------------------------------
(* Program constants *)

PRECISION == 1000000000

\* PRECISION = Limb^3: the digit base of the long multiplication / division
Limb == 1000

\* 30 days in seconds, 2592000 = 39 * 2^16 + 36096 = 2^8 * 10125
LockLimb == 65536
Period == [hi |-> 39, lo |-> 36096]

PenaltyPercent == 20

BoostPerPeriod == 10

DefaultMultiplier == 100

----------------------------------------------------------------------------
(* Bounds of the model *)

MaxTime == 2

MaxCalls == 6

MaxExtraPeriods == 2

UserFunds == 2

RewardFunds == 6

Users == {"u1", "u2"}
Contract == "contract"
Admin == "admin"
Holders == Users \cup {Contract}
Tokens == {"TKA", "TKB"}

----------------------------------------------------------------------------
(* Wide numbers: value = hi * PRECISION + lo *)

WideZero == [hi |-> 0, lo |-> 0]

WideAdd(a, b) ==
    LET s == a.lo + b.lo
    IN  [hi |-> a.hi + b.hi + (s \div PRECISION), lo |-> s % PRECISION]

WideSub(a, b) ==
    LET d == a.lo - b.lo
    IN  IF d >= 0 THEN [hi |-> a.hi - b.hi, lo |-> d]
                  ELSE [hi |-> a.hi - b.hi - 1, lo |-> d + PRECISION]

WideNeg(a) == WideSub(WideZero, a)

WideLeq(a, b) == a.hi < b.hi \/ (a.hi = b.hi /\ a.lo <= b.lo)

\* floor(s * x / PRECISION) for s >= 0 and 0 <= x < PRECISION
MulShift(s, x) ==
    LET c  == x % Limb
        b  == (x \div Limb) % Limb
        a  == x \div (Limb * Limb)
        t0 == s * c
        t1 == s * b + (t0 \div Limb)
        t2 == s * a + (t1 \div Limb)
    IN  t2 \div Limb

\* RewardPerShare rounding up instead of down
RewardPerShareUp(reward, shares) ==
    LET x1 == (reward % shares) * Limb
        x2 == (x1 % shares) * Limb
        x3 == (x2 % shares) * Limb
        up == IF x3 % shares = 0 THEN 0 ELSE 1
    IN  [hi |-> reward \div shares,
         lo |-> (x1 \div shares) * Limb * Limb + (x2 \div shares) * Limb
                + (x3 \div shares) + up]

\* (reward * PRECISION) / total_shares for reward >= 0, total_shares > 0
RewardPerShare(reward, shares) ==
    LET x1 == (reward % shares) * Limb
        x2 == (x1 % shares) * Limb
        x3 == (x2 % shares) * Limb
    IN  [hi |-> reward \div shares,
         lo |-> (x1 \div shares) * Limb * Limb + (x2 \div shares) * Limb + (x3 \div shares)]

\* (shares * (rpt_stored - reward_per_token_paid)) / PRECISION, truncating as i128 does
Pending(shares, stored, paid) ==
    LET d == WideSub(stored, paid)
        n == WideNeg(d)
    IN  IF d.hi >= 0 THEN shares * d.hi + MulShift(shares, d.lo)
                     ELSE -(shares * n.hi + MulShift(shares, n.lo))

----------------------------------------------------------------------------
(* Storage and ledger as one value, so that a panicking call can be rolled back *)

World ==
    [config |-> config, tiers |-> tiers, users |-> users,
     total_shares |-> total_shares,
     reward_per_token_stored |-> reward_per_token_stored,
     last_update_time |-> last_update_time,
     balances |-> balances]

Ok(w, sent, pending) ==
    [ok |-> TRUE, err |-> "ok", w |-> w, sent |-> sent, pending |-> pending]

\* panic!/expect: w is the state the handler had reached when it panicked
Panic(err, w) ==
    [ok |-> FALSE, err |-> err, w |-> w, sent |-> 0, pending |-> 0]

HasConfig(w) == Len(w.config) = 1

read_config(w) == w.config[1]

DefaultTier == [min_amount |-> 0, reward_multiplier |-> DefaultMultiplier]

\* read_tier(&env, tier_id).unwrap_or(Tier { min_amount: 0, reward_multiplier: 100 })
read_tier(w, tier_id) ==
    IF tier_id \in DOMAIN w.tiers THEN w.tiers[tier_id] ELSE DefaultTier

EmptyInfo(paid) ==
    [amount |-> 0, shares |-> 0, reward_per_token_paid |-> paid, rewards |-> 0,
     lock_start_time |-> 0, lock_duration |-> [hi |-> 0, lo |-> 0], tier_id |-> 0]

\* read_user_info(&env, &user).unwrap_or(UserInfo { .., reward_per_token_paid: paid, .. })
read_user_info(w, user, paid) ==
    IF user \in DOMAIN w.users THEN w.users[user] ELSE EmptyInfo(paid)

write_user_info(w, user, info) ==
    [w EXCEPT !.users = [x \in (DOMAIN w.users) \cup {user} |->
                            IF x = user THEN info ELSE w.users[x]]]

\* token::Client::transfer: all-or-nothing, fails on a negative amount or a short balance
transfer(w, token, from, to, amount) ==
    IF amount < 0 \/ w.balances[token][from] < amount
    THEN Panic("TransferFailed", w)
    ELSE Ok([w EXCEPT !.balances[token] =
                [h \in Holders |->
                    w.balances[token][h]
                    - (IF h = from THEN amount ELSE 0)
                    + (IF h = to THEN amount ELSE 0)]], amount, 0)

----------------------------------------------------------------------------
(* Share computation *)

\* lock_duration as u32: the low 32 bits
AsU32(d) == [hi |-> d.hi % LockLimb, lo |-> d.lo]

\* (x / 2_592_000) for a u32 x; 2_592_000 = 2^8 * 10125 and 2^16 = 2^8 * 2^8
Periods(x) == (x.hi * 256 + (x.lo \div 256)) \div 10125

boost(lock_duration) == Periods(AsU32(lock_duration)) * BoostPerPeriod

total_multiplier(tier, lock_duration) == tier.reward_multiplier + boost(lock_duration)

new_shares(amount, tier, lock_duration) ==
    (amount * total_multiplier(tier, lock_duration)) \div 100

\* current_time < lock_start_time + lock_duration
LockActive(t, info) ==
    ((t - info.lock_start_time - info.lock_duration.lo) \div LockLimb) < info.lock_duration.hi

\* penalty computed as a tenth of a percent: (amount * 20) / 1000
penalty_small(amount) == (amount * PenaltyPercent) \div 1000

penalty(amount) == (amount * PenaltyPercent) \div 100

\* tier_violation, off by one
tier_violation_below(amount, tier) == amount < tier.min_amount - 1

\* line 80: user_info.amount < tier.min_amount
tier_violation(amount, tier) == amount < tier.min_amount

----------------------------------------------------------------------------
(* update_reward *)

\* update_global with rpt_stored -= instead of +=
update_global_down(w, t) ==
    IF t > w.last_update_time
    THEN LET reward == (t - w.last_update_time) * read_config(w).reward_rate
             rpt == IF w.total_shares > 0
                    THEN WideSub(w.reward_per_token_stored,
                                 RewardPerShare(reward, w.total_shares))
                    ELSE w.reward_per_token_stored
         IN  [w EXCEPT !.reward_per_token_stored = rpt, !.last_update_time = t]
    ELSE w

\* update_global with write_last_update_time forgotten
update_global_stale(w, t) ==
    IF t > w.last_update_time
    THEN LET reward == (t - w.last_update_time) * read_config(w).reward_rate
             rpt == IF w.total_shares > 0
                    THEN WideAdd(w.reward_per_token_stored,
                                 RewardPerShare(reward, w.total_shares))
                    ELSE w.reward_per_token_stored
         IN  [w EXCEPT !.reward_per_token_stored = rpt]
    ELSE w

\* update_global with write_last_update_time moved inside `if total_shares > 0`
update_global_idle(w, t) ==
    IF t > w.last_update_time /\ w.total_shares > 0
    THEN LET reward == (t - w.last_update_time) * read_config(w).reward_rate
         IN  [w EXCEPT !.reward_per_token_stored =
                            WideAdd(@, RewardPerShare(reward, w.total_shares)),
                       !.last_update_time = t]
    ELSE w

\* lines 299-308: advance the accumulator and last_update_time
update_global(w, t) ==
    IF t > w.last_update_time
    THEN LET reward == (t - w.last_update_time) * read_config(w).reward_rate
             rpt == IF w.total_shares > 0
                    THEN WideAdd(w.reward_per_token_stored,
                                 RewardPerShare(reward, w.total_shares))
                    ELSE w.reward_per_token_stored
         IN  [w EXCEPT !.reward_per_token_stored = rpt, !.last_update_time = t]
    ELSE w

\* line 321: the pending reward of user against the advanced accumulator
pending_of(w, t, user) ==
    LET g == update_global(w, t)
        info == read_user_info(g, user, g.reward_per_token_stored)
    IN  Pending(info.shares, g.reward_per_token_stored, info.reward_per_token_paid)

\* update_reward with user_info.reward_per_token_paid = rpt_stored forgotten
update_reward_unpaid(w, t, user) ==
    LET g == update_global(w, t)
        info == read_user_info(g, user, g.reward_per_token_stored)
    IN  write_user_info(g, user, [info EXCEPT !.rewards = @ + pending_of(w, t, user)])

\* lines 310-326: settle the user's pending reward and write the record
update_reward(w, t, user) ==
    LET g == update_global(w, t)
        info == read_user_info(g, user, g.reward_per_token_stored)
    IN  write_user_info(g, user,
            [info EXCEPT !.rewards = @ + pending_of(w, t, user),
                         !.reward_per_token_paid = g.reward_per_token_stored])

----------------------------------------------------------------------------
(* The contract's entry points, as functions of the state w and the ledger time t *)

initialize(w, t, admin, staking_token, reward_token, reward_rate) ==
    IF HasConfig(w) THEN Panic("AlreadyInitialized", w)
    ELSE Ok([w EXCEPT !.config = <<[admin |-> admin, staking_token |-> staking_token,
                                    reward_token |-> reward_token,
                                    reward_rate |-> reward_rate]>>,
                      !.last_update_time = t], 0, 0)

\* set_tier recomputing at once the shares of the positions held in that tier
set_tier_eager(w, tier_id, min_amount, reward_multiplier) ==
    IF ~HasConfig(w) THEN Panic("NotInitialized", w)
    ELSE
    LET tier == [min_amount |-> min_amount, reward_multiplier |-> reward_multiplier]
        held == {u \in DOMAIN w.users : w.users[u].tier_id = tier_id}
    IN  Ok([w EXCEPT !.tiers = [i \in (DOMAIN w.tiers) \cup {tier_id} |->
                                    IF i = tier_id THEN tier ELSE w.tiers[i]],
                     !.users = IF held = {} THEN w.users
                               ELSE [u \in DOMAIN w.users |->
                                        IF u \in held
                                        THEN [w.users[u] EXCEPT !.shares =
                                                new_shares(w.users[u].amount, tier,
                                                           w.users[u].lock_duration)]
                                        ELSE w.users[u]]], 0, 0)

set_tier(w, tier_id, min_amount, reward_multiplier) ==
    IF ~HasConfig(w) THEN Panic("NotInitialized", w)
    ELSE Ok([w EXCEPT !.tiers = [i \in (DOMAIN w.tiers) \cup {tier_id} |->
                IF i = tier_id
                THEN [min_amount |-> min_amount, reward_multiplier |-> reward_multiplier]
                ELSE w.tiers[i]]], 0, 0)

\* stake with update_reward called after the position is rewritten instead of before
stake_accrues_late(w, t, user, amount, lock_duration, tier_id) ==
    IF amount <= 0 THEN Panic("InvalidAmount", w)
    ELSE IF ~HasConfig(w) THEN Panic("NotInitialized", w)
    ELSE
    LET tr == transfer(w, read_config(w).staking_token, user, Contract, amount)
        w2 == tr.w
        info0 == read_user_info(w2, user, w2.reward_per_token_stored)
        amount1 == info0.amount + amount
        tier == read_tier(w2, tier_id)
        shares1 == new_shares(amount1, tier, lock_duration)
        diff_shares == shares1 - info0.shares
        info1 == [info0 EXCEPT !.amount = amount1, !.shares = shares1,
                               !.tier_id = tier_id, !.lock_start_time = t,
                               !.lock_duration = lock_duration]
        w3 == write_user_info(w2, user, info1)
        w4 == [w3 EXCEPT !.total_shares = @ + diff_shares]
    IN  IF ~tr.ok THEN Panic("TransferFailed", w)
        ELSE IF tier_violation(amount1, tier) THEN Panic("TierViolation", w2)
        ELSE Ok(update_reward(w4, t, user), 0, pending_of(w4, t, user))

stake(w, t, user, amount, lock_duration, tier_id) ==
    IF amount <= 0 THEN Panic("InvalidAmount", w)
    ELSE IF ~HasConfig(w) THEN Panic("NotInitialized", w)
    ELSE
    LET w1 == update_reward(w, t, user)
        tr == transfer(w1, read_config(w1).staking_token, user, Contract, amount)
        w2 == tr.w
        info0 == read_user_info(w2, user, w2.reward_per_token_stored)
        amount1 == info0.amount + amount
        tier == read_tier(w2, tier_id)
        shares1 == new_shares(amount1, tier, lock_duration)
        diff_shares == shares1 - info0.shares
        info1 == [info0 EXCEPT !.amount = amount1, !.shares = shares1,
                               !.tier_id = tier_id, !.lock_start_time = t,
                               !.lock_duration = lock_duration]
        w3 == write_user_info(w2, user, info1)
    IN  IF ~tr.ok THEN Panic("TransferFailed", w1)
        ELSE IF tier_violation(amount1, tier) THEN Panic("TierViolation", w2)
        ELSE Ok([w3 EXCEPT !.total_shares = @ + diff_shares], 0, pending_of(w, t, user))

claim(w, t, user, compound) ==
    IF ~HasConfig(w) THEN Panic("NotInitialized", w)
    ELSE
    LET w1 == update_reward(w, t, user)
        info0 == w1.users[user]
        reward == info0.rewards
        info1 == [info0 EXCEPT !.rewards = 0]
        w2 == write_user_info(w1, user, info1)
        cfg == read_config(w2)
        tier == read_tier(w2, info1.tier_id)
        amount1 == info1.amount + reward
        shares1 == new_shares(amount1, tier, info1.lock_duration)
        diff_shares == shares1 - info1.shares
        info2 == [info1 EXCEPT !.amount = amount1, !.shares = shares1]
        w3 == write_user_info(w2, user, info2)
        tr == transfer(w2, cfg.reward_token, Contract, user, reward)
    IN  IF user \notin DOMAIN w1.users THEN Panic("PositionNotFound", w1)
        ELSE IF ~(reward > 0) THEN Ok(w1, 0, pending_of(w, t, user))
        ELSE IF compound
        THEN IF cfg.staking_token # cfg.reward_token
             THEN Panic("IncompatibleCompound", w2)
             ELSE Ok([w3 EXCEPT !.total_shares = @ + diff_shares], 0, pending_of(w, t, user))
        ELSE IF ~tr.ok THEN Panic("TransferFailed", w2)
        ELSE Ok(tr.w, reward, pending_of(w, t, user))

\* reduce_position with total_shares += diff_shares, as stake has it
reduce_position_adds(w, user, amount) ==
    LET info0 == w.users[user]
        amount1 == info0.amount - amount
        tier == read_tier(w, info0.tier_id)
        tier_id1 == IF amount1 > 0 /\ amount1 < tier.min_amount THEN 0 ELSE info0.tier_id
        new_tier == read_tier(w, tier_id1)
        shares1 == new_shares(amount1, new_tier, info0.lock_duration)
        diff_shares == info0.shares - shares1
        info1 == [info0 EXCEPT !.amount = amount1, !.tier_id = tier_id1, !.shares = shares1]
        w1 == write_user_info(w, user, info1)
    IN  [w1 EXCEPT !.total_shares = @ + diff_shares]

\* reduce_position using the base tier for the shares without storing tier_id = 0
reduce_position_derives(w, user, amount) ==
    LET info0 == w.users[user]
        amount1 == info0.amount - amount
        tier == read_tier(w, info0.tier_id)
        tier_id1 == IF amount1 > 0 /\ amount1 < tier.min_amount THEN 0 ELSE info0.tier_id
        new_tier == read_tier(w, tier_id1)
        shares1 == new_shares(amount1, new_tier, info0.lock_duration)
        diff_shares == info0.shares - shares1
        info1 == [info0 EXCEPT !.amount = amount1, !.shares = shares1]
        w1 == write_user_info(w, user, info1)
    IN  [w1 EXCEPT !.total_shares = @ - diff_shares]

\* lines 180-208 of unstake: the amount / tier / share adjustment
reduce_position(w, user, amount) ==
    LET info0 == w.users[user]
        amount1 == info0.amount - amount
        tier == read_tier(w, info0.tier_id)
        tier_id1 == IF amount1 > 0 /\ amount1 < tier.min_amount THEN 0 ELSE info0.tier_id
        new_tier == read_tier(w, tier_id1)
        shares1 == new_shares(amount1, new_tier, info0.lock_duration)
        diff_shares == info0.shares - shares1
        info1 == [info0 EXCEPT !.amount = amount1, !.tier_id = tier_id1, !.shares = shares1]
        w1 == write_user_info(w, user, info1)
    IN  [w1 EXCEPT !.total_shares = @ - diff_shares]

unstake(w, t, user, amount) ==
    IF amount <= 0 THEN Panic("InvalidAmount", w)
    ELSE IF ~HasConfig(w) THEN Panic("NotInitialized", w)
    ELSE
    LET w1 == update_reward(w, t, user)
        info0 == w1.users[user]
        actual_amount == IF LockActive(t, info0) THEN amount - penalty(amount) ELSE amount
        w2 == reduce_position(w1, user, amount)
        tr == transfer(w2, read_config(w2).staking_token, Contract, user, actual_amount)
    IN  IF user \notin DOMAIN w1.users THEN Panic("PositionNotFound", w1)
        ELSE IF info0.amount < amount THEN Panic("InsufficientBalance", w1)
        ELSE IF ~tr.ok THEN Panic("TransferFailed", w2)
        ELSE Ok(tr.w, actual_amount, pending_of(w, t, user))

\* slash sending the amount out as unstake does
slash_pays(w, t, user, amount) == unstake(w, t, user, amount)

\* slash_position without the demotion of lines 232-234
slash_position_keeps_tier(w, user, amount) ==
    LET info0 == w.users[user]
        amount1 == info0.amount - amount
        new_tier == read_tier(w, info0.tier_id)
        shares1 == new_shares(amount1, new_tier, info0.lock_duration)
        diff_shares == info0.shares - shares1
        info1 == [info0 EXCEPT !.amount = amount1, !.shares = shares1]
        w1 == write_user_info(w, user, info1)
    IN  [w1 EXCEPT !.total_shares = @ - diff_shares]

\* lines 226-251 of slash: its own copy of the amount / tier / share adjustment
slash_position(w, user, amount) ==
    LET info0 == w.users[user]
        amount1 == info0.amount - amount
        tier == read_tier(w, info0.tier_id)
        tier_id1 == IF amount1 > 0 /\ amount1 < tier.min_amount THEN 0 ELSE info0.tier_id
        new_tier == read_tier(w, tier_id1)
        shares1 == new_shares(amount1, new_tier, info0.lock_duration)
        diff_shares == info0.shares - shares1
        info1 == [info0 EXCEPT !.amount = amount1, !.tier_id = tier_id1, !.shares = shares1]
        w1 == write_user_info(w, user, info1)
    IN  [w1 EXCEPT !.total_shares = @ - diff_shares]

slash(w, t, user, amount) ==
    IF ~HasConfig(w) THEN Panic("NotInitialized", w)
    ELSE
    LET w1 == update_reward(w, t, user)
        info0 == w1.users[user]
        w2 == slash_position(w1, user, amount)
    IN  IF user \notin DOMAIN w1.users THEN Panic("PositionNotFound", w1)
        ELSE IF info0.amount < amount THEN Panic("InsufficientBalance", w1)
        ELSE Ok(w2, 0, pending_of(w, t, user))

\* emergency_withdraw leaving the shares in the reset record
emergency_withdraw_keeps_shares(w, user) ==
    IF user \notin DOMAIN w.users THEN Panic("PositionNotFound", w)
    ELSE
    LET info0 == w.users[user]
        amount == info0.amount
        actual_amount == amount - penalty(amount)
        w2 == write_user_info(w, user,
                    [EmptyInfo(WideZero) EXCEPT !.shares = info0.shares])
        tr == transfer(w2, read_config(w2).staking_token, Contract, user, actual_amount)
    IN  IF amount = 0 THEN Panic("ZeroBalance", w)
        ELSE IF ~tr.ok THEN Panic("TransferFailed", w2)
        ELSE Ok(tr.w, actual_amount, 0)

emergency_withdraw(w, user) ==
    IF user \notin DOMAIN w.users THEN Panic("PositionNotFound", w)
    ELSE
    LET info0 == w.users[user]
        amount == info0.amount
        actual_amount == amount - penalty(amount)
        w1 == [w EXCEPT !.total_shares = @ - info0.shares]
        w2 == write_user_info(w1, user, EmptyInfo(WideZero))
        tr == transfer(w2, read_config(w2).staking_token, Contract, user, actual_amount)
    IN  IF amount = 0 THEN Panic("ZeroBalance", w)
        ELSE IF ~tr.ok THEN Panic("TransferFailed", w2)
        ELSE Ok(tr.w, actual_amount, 0)

\* the host commits a call that returns and rolls back one that panics
committed(w, r) == IF r.ok THEN r.w ELSE w

----------------------------------------------------------------------------
(* Inputs of the general specification *)

RewardRates == {3}
TierIds == {0, 1}
MinAmounts == {2}
Multipliers == {150, 250}
Amounts == {1, 2}
SlashAmounts == {1, 2}
NoLock == [hi |-> 0, lo |-> 0]
LockDurations == {NoLock, Period}
NoUser == "-"

\* what each user is let to stake: <<amount, lock_duration, tier_id>>
StakeInputs(u) ==
    IF u = "u1" THEN Amounts \X LockDurations \X TierIds
                ELSE {<<2, NoLock, 0>>, <<1, Period, 0>>}

CompoundInputs(u) == IF u = "u1" THEN BOOLEAN ELSE {FALSE}

----------------------------------------------------------------------------
(* State after construction: tokens created and minted, contract registered *)

InitWith(user_funds, reward_funds) ==
    /\ now = 0
    /\ config = << >>
    /\ tiers = << >>
    /\ users = << >>
    /\ total_shares = 0
    /\ reward_per_token_stored = WideZero
    /\ last_update_time = 0
    /\ balances = [k \in Tokens |-> [h \in Holders |->
                      IF h = Contract THEN reward_funds
                      ELSE IF k = "TKA" THEN user_funds ELSE 0]]
    /\ last = [op |-> "deploy", user |-> NoUser, compound |-> FALSE, sent |-> 0]
    /\ credited = 0
    /\ init_time = 0
    /\ calls = 0
    /\ hist = << >>
    /\ staked_time = 0

Init == InitWith(UserFunds, RewardFunds)

\* one successful contract call; a call that panics is rolled back by the host and
\* leaves every variable as it was (a stuttering step)
Apply(op, user, compound, r) ==
    LET w == committed(World, r)
    IN  /\ r.ok
        /\ config' = w.config
        /\ tiers' = w.tiers
        /\ users' = w.users
        /\ total_shares' = w.total_shares
        /\ reward_per_token_stored' = w.reward_per_token_stored
        /\ last_update_time' = w.last_update_time
        /\ balances' = w.balances
        /\ last' = [op |-> op, user |-> user, compound |-> compound, sent |-> r.sent]
        /\ credited' = credited + r.pending
        /\ init_time' = IF op = "initialize" /\ r.ok THEN now ELSE init_time
        /\ calls' = calls + 1
        /\ now' = now
        /\ staked_time' = staked_time

InitializeCall(staking_token, reward_token, reward_rate) ==
    Apply("initialize", NoUser, FALSE,
          initialize(World, now, Admin, staking_token, reward_token, reward_rate))

SetTierCall(tier_id, min_amount, reward_multiplier) ==
    Apply("set_tier", NoUser, FALSE,
          set_tier(World, tier_id, min_amount, reward_multiplier))

StakeCall(user, amount, lock_duration, tier_id) ==
    Apply("stake", user, FALSE, stake(World, now, user, amount, lock_duration, tier_id))

ClaimCall(user, compound) ==
    Apply("claim", user, compound, claim(World, now, user, compound))

UnstakeCall(user, amount) ==
    Apply("unstake", user, FALSE, unstake(World, now, user, amount))

SlashCall(user, amount) ==
    Apply("slash", user, FALSE, slash(World, now, user, amount))

EmergencyWithdrawCall(user) ==
    Apply("emergency_withdraw", user, FALSE, emergency_withdraw(World, user))

\* ledger.timestamp += dt
AdvanceCall(dt) ==
    /\ now' = now + dt
    /\ last' = [op |-> "advance", user |-> NoUser, compound |-> FALSE, sent |-> 0]
    /\ calls' = calls + 1
    /\ staked_time' = staked_time + (IF total_shares > 0 THEN dt ELSE 0)
    /\ UNCHANGED <<config, tiers, users, total_shares, reward_per_token_stored,
                   last_update_time, balances, credited, init_time>>

----------------------------------------------------------------------------
(* General specification: any call by any user at any time *)

Initialize ==
    /\ calls < MaxCalls
    /\ \E rt \in Tokens, rate \in RewardRates : InitializeCall("TKA", rt, rate)
    /\ UNCHANGED hist

SetTier ==
    /\ calls < MaxCalls
    /\ \E id \in TierIds \ {0}, m \in MinAmounts, mult \in Multipliers :
            SetTierCall(id, m, mult)
    /\ UNCHANGED hist

Stake ==
    /\ calls < MaxCalls
    /\ \E u \in Users : \E in \in StakeInputs(u) : StakeCall(u, in[1], in[2], in[3])
    /\ UNCHANGED hist

Claim ==
    /\ calls < MaxCalls
    /\ \E u \in Users : \E c \in CompoundInputs(u) : ClaimCall(u, c)
    /\ UNCHANGED hist

Unstake ==
    /\ calls < MaxCalls
    /\ \E u \in Users, a \in Amounts : UnstakeCall(u, a)
    /\ UNCHANGED hist

Slash ==
    /\ calls < MaxCalls
    /\ \E u \in Users, a \in SlashAmounts : SlashCall(u, a)
    /\ UNCHANGED hist

EmergencyWithdraw ==
    /\ calls < MaxCalls
    /\ \E u \in Users : EmergencyWithdrawCall(u)
    /\ UNCHANGED hist

Advance ==
    /\ calls < MaxCalls
    /\ now < MaxTime
    /\ AdvanceCall(1)
    /\ UNCHANGED hist

Next ==
    \/ Initialize
    \/ SetTier
    \/ Stake
    \/ Claim
    \/ Unstake
    \/ Slash
    \/ EmergencyWithdraw
    \/ Advance

Spec == Init /\ [][Next]_vars

----------------------------------------------------------------------------
(* Life-cycle specification: the calls of test_staking_lifecycle in the test's   *)
(* order, by user u1 on one token, each argument drawn from a set that holds the *)
(* test's value (listed first).  hist records the calls made.                    *)

LcUserFunds == 1000000
LcMintAmount == 100000

\* 1657 and 1658 periods of 30 days: 4_294_944_000 < 2^32 <= 4_297_536_000
Periods1657 == [hi |-> 65535, lo |-> 42240]
Periods1658 == [hi |-> 65575, lo |-> 12800]

LcRates == {10, 7}
LcMinAmounts == {1000, 1500}
LcMultipliers == {150}
LcStakeAmounts == {2000, 1200}
LcLocks == {Period, NoLock, Periods1657, Periods1658}
LcTierIds == {1, 0}
LcSteps == {10, 7}
LcUnstakeAmounts == {1000, 1500}
LcSlashAmounts == {500, 1000}

LcInit == InitWith(LcUserFunds, 0)

LcInitialize ==
    /\ Len(hist) = 0
    /\ \E rate \in LcRates :
        /\ InitializeCall("TKA", "TKA", rate)
        /\ hist' = Append(hist, [op |-> "initialize", reward_rate |-> rate])

LcSetTier ==
    /\ Len(hist) = 1
    /\ \E m \in LcMinAmounts, mult \in LcMultipliers :
        /\ SetTierCall(1, m, mult)
        /\ hist' = Append(hist, [op |-> "set_tier", tier_id |-> 1, min_amount |-> m,
                                 reward_multiplier |-> mult])

LcStake ==
    /\ Len(hist) = 2
    /\ \E a \in LcStakeAmounts, l \in LcLocks, id \in LcTierIds :
        /\ StakeCall("u1", a, l, id)
        /\ hist' = Append(hist, [op |-> "stake", amount |-> a, lock_duration |-> l,
                                 tier_id |-> id])

LcAdvance ==
    /\ Len(hist) \in {3, 6}
    /\ \E dt \in LcSteps :
        /\ AdvanceCall(dt)
        /\ hist' = Append(hist, [op |-> "advance", dt |-> dt])

LcMint ==
    /\ Len(hist) = 4
    /\ balances' = [balances EXCEPT !["TKA"][Contract] = @ + LcMintAmount]
    /\ hist' = Append(hist, [op |-> "mint", amount |-> LcMintAmount])
    /\ last' = [op |-> "mint", user |-> NoUser, compound |-> FALSE, sent |-> 0]
    /\ UNCHANGED <<now, config, tiers, users, total_shares, reward_per_token_stored,
                   last_update_time, credited, init_time, calls, staked_time>>

LcClaim ==
    /\ Len(hist) = 5
    /\ \E c \in BOOLEAN :
        /\ ClaimCall("u1", c)
        /\ hist' = Append(hist, [op |-> "claim", compound |-> c])

LcUnstake ==
    /\ Len(hist) = 7
    /\ \E a \in LcUnstakeAmounts :
        /\ UnstakeCall("u1", a)
        /\ hist' = Append(hist, [op |-> "unstake", amount |-> a])

LcSlash ==
    /\ Len(hist) = 8
    /\ \E a \in LcSlashAmounts :
        /\ SlashCall("u1", a)
        /\ hist' = Append(hist, [op |-> "slash", amount |-> a])

LcEmergencyWithdraw ==
    /\ Len(hist) = 9
    /\ EmergencyWithdrawCall("u1")
    /\ hist' = Append(hist, [op |-> "emergency_withdraw"])

LcNext ==
    \/ LcInitialize
    \/ LcSetTier
    \/ LcStake
    \/ LcAdvance
    \/ LcMint
    \/ LcClaim
    \/ LcUnstake
    \/ LcSlash
    \/ LcEmergencyWithdraw

Lifecycle == LcInit /\ [][LcNext]_vars

\* the test's own calls, test.rs lines 32-66
TestCalls ==
    << [op |-> "initialize", reward_rate |-> 10],
       [op |-> "set_tier", tier_id |-> 1, min_amount |-> 1000, reward_multiplier |-> 150],
       [op |-> "stake", amount |-> 2000, lock_duration |-> Period, tier_id |-> 1],
       [op |-> "advance", dt |-> 10],
       [op |-> "mint", amount |-> LcMintAmount],
       [op |-> "claim", compound |-> FALSE],
       [op |-> "advance", dt |-> 10],
       [op |-> "unstake", amount |-> 1000],
       [op |-> "slash", amount |-> 500],
       [op |-> "emergency_withdraw"] >>

\* the run so far is the test's first n calls
TestPrefix(n) == hist = SubSeq(TestCalls, 1, n)

----------------------------------------------------------------------------
(* Single-position specification: one participant, u1, with amounts of the size  *)
(* the test uses, so that the 20% penalty and the tier minimum are not rounded   *)
(* away, locks that expire within the run, tier 0 set explicitly, and slash with *)
(* a negative amount (slash has no positivity check).  Here hist holds the most  *)
(* recent successful stake of u1, if there was one.                              *)

MaxSoloCalls == 6

MaxSoloTime == 15

SoloSteps == {5}

TenSeconds == [hi |-> 0, lo |-> 10]

SoloRates == {10}
SoloTiers == {<<1, 1000, 150>>, <<0, 0, 120>>}
SoloStakeAmounts == {2000}
SoloLocks == {NoLock, TenSeconds, Period}
SoloUnstakeAmounts == {1000, 500}
SoloSlashAmounts == {500, -500}

SoloInit ==
    /\ now = 0
    /\ config = << >>
    /\ tiers = << >>
    /\ users = << >>
    /\ total_shares = 0
    /\ reward_per_token_stored = WideZero
    /\ last_update_time = 0
    /\ balances = [k \in Tokens |-> [h \in Holders |->
                      IF h = Contract THEN (IF k = "TKB" THEN LcMintAmount ELSE 0)
                      ELSE IF k = "TKA" /\ h = "u1" THEN LcUserFunds ELSE 0]]
    /\ last = [op |-> "deploy", user |-> NoUser, compound |-> FALSE, sent |-> 0]
    /\ credited = 0
    /\ init_time = 0
    /\ calls = 0
    /\ hist = << >>
    /\ staked_time = 0

SoloInitialize ==
    /\ calls < MaxSoloCalls
    /\ \E rt \in Tokens, rate \in SoloRates : InitializeCall("TKA", rt, rate)
    /\ UNCHANGED hist

SoloSetTier ==
    /\ calls < MaxSoloCalls
    /\ \E in \in SoloTiers : SetTierCall(in[1], in[2], in[3])
    /\ UNCHANGED hist

SoloStake ==
    /\ calls < MaxSoloCalls
    /\ \E a \in SoloStakeAmounts, l \in SoloLocks, id \in TierIds :
        /\ StakeCall("u1", a, l, id)
        /\ hist' = <<[op |-> "stake", time |-> now, lock_duration |-> l,
                       tier_id |-> id]>>

SoloClaim ==
    /\ calls < MaxSoloCalls
    /\ \E c \in BOOLEAN : ClaimCall("u1", c)
    /\ UNCHANGED hist

SoloUnstake ==
    /\ calls < MaxSoloCalls
    /\ \E a \in SoloUnstakeAmounts : UnstakeCall("u1", a)
    /\ UNCHANGED hist

SoloSlash ==
    /\ calls < MaxSoloCalls
    /\ \E a \in SoloSlashAmounts : SlashCall("u1", a)
    /\ UNCHANGED hist

SoloEmergencyWithdraw ==
    /\ calls < MaxSoloCalls
    /\ EmergencyWithdrawCall("u1")
    /\ UNCHANGED hist

SoloAdvance ==
    /\ calls < MaxSoloCalls
    /\ \E dt \in SoloSteps : now + dt <= MaxSoloTime /\ AdvanceCall(dt)
    /\ UNCHANGED hist

SoloNext ==
    \/ SoloInitialize
    \/ SoloSetTier
    \/ SoloStake
    \/ SoloClaim
    \/ SoloUnstake
    \/ SoloSlash
    \/ SoloEmergencyWithdraw
    \/ SoloAdvance

Solo == SoloInit /\ [][SoloNext]_vars

----------------------------------------------------------------------------
(* Claims *)

RECURSIVE SumShares(_, _)
SumShares(us, S) ==
    IF S = {} THEN 0
    ELSE LET u == CHOOSE x \in S : TRUE
         IN  us[u].shares + SumShares(us, S \ {u})

\* C1: after any sequence of successful calls and time advances, total_shares is
\* the sum of the shares of all position records.
C1_TotalSharesIsSum == total_shares = SumShares(users, DOMAIN users)

\* both users hold shares, one of them staked after time had passed, and the last
\* call was an unstake or a slash
C1_Witness ==
    /\ DOMAIN users = Users
    /\ \A u \in Users : users[u].shares > 0
    /\ \E u \in Users : users[u].amount > 0 /\ users[u].lock_start_time > 0
    /\ last.op \in {"unstake", "slash"}
    /\ total_shares > 2

\* C2: with reward_rate >= 0 the reward credited to positions since initialization
\* is at most reward_rate * (current time - initialization time).
C2_NoUnbackedReward ==
    HasConfig(World) =>
        /\ read_config(World).reward_rate >= 0
        /\ credited <= read_config(World).reward_rate * (now - init_time)

\* two stakers have been credited reward, and rounding has kept some back
C2_Witness ==
    /\ HasConfig(World)
    /\ DOMAIN users = Users
    /\ \A u \in Users : users[u].rewards > 0
    /\ credited > 0
    /\ credited < read_config(World).reward_rate * (now - init_time)

\* C3: a claim for a participant who has no position record fails and changes no
\* state: no step of the contract is a claim by a user without a record.
C3_ClaimNeedsPosition ==
    [][(last'.op = "claim" /\ calls' = calls + 1) => last'.user \in DOMAIN users]_vars


\* lock_duration + k * 2_592_000
LockPlus(l, k) ==
    LET lo == l.lo + k * Period.lo
    IN  [hi |-> l.hi + k * Period.hi + (lo \div LockLimb), lo |-> lo % LockLimb]

\* C4: the shares stake computes with lock_duration + k * 2,592,000 (k >= 1) are
\* never fewer than the shares it computes with lock_duration.
C4_LockMonotone ==
    Len(hist) = 3 =>
        \A l0 \in LcLocks, k \in 1..MaxExtraPeriods :
            LockPlus(l0, k) = hist[3].lock_duration =>
                users["u1"].shares >=
                    new_shares(hist[3].amount, read_tier(World, hist[3].tier_id), l0)

\* C5 as stated: after the test's calls up to unstake(1000), slash(500) leaves the
\* position with amount 0 and transfers nothing, and an emergency_withdraw issued
\* after it fails with ZeroBalance.
C5_SlashLeavesNothing ==
    TestPrefix(9) =>
        /\ users["u1"].amount = 0
        /\ last.sent = 0
        /\ emergency_withdraw(World, "u1").err = "ZeroBalance"

\* C5 amended: after the test's calls up to unstake(1000), slash(500) leaves the
\* position with amount 500 and moves no asset, and the emergency_withdraw issued
\* after it succeeds and pays the participant 400.
C5_SlashLeavesHalf ==
    /\ TestPrefix(9) =>
        /\ users["u1"].amount = 500
        /\ last.sent = 0
        /\ balances["TKA"]["u1"] = 998900
        /\ balances["TKA"][Contract] = 101100
        /\ emergency_withdraw(World, "u1").ok
    /\ TestPrefix(10) =>
        /\ users["u1"].amount = 0
        /\ balances["TKA"]["u1"] = 999300

\* the test's slash(500) has run
C5_Witness == TestPrefix(9) /\ last.op = "slash" /\ users["u1"].shares = 550

C7_TierViolationRollsBack ==
    \A u \in Users, a \in Amounts, l \in LockDurations, id \in TierIds :
        LET r == stake(World, now, u, a, l, id)
            held == IF u \in DOMAIN users THEN users[u].amount ELSE 0
            min == IF id \in DOMAIN tiers THEN tiers[id].min_amount ELSE 0
        IN  (HasConfig(World) /\ balances[config[1].staking_token][u] >= a
                /\ held + a < min)
            => /\ ~r.ok
               /\ r.err = "TierViolation"
               /\ committed(World, r) = World

\* a stake is refused for its tier after accrual and the inbound transfer have run
C7_Witness ==
    \E u \in Users, a \in Amounts, l \in LockDurations, id \in TierIds :
        LET r == stake(World, now, u, a, l, id)
        IN  /\ HasConfig(World)
            /\ r.err = "TierViolation"
            /\ r.w.last_update_time # last_update_time
            /\ r.w.reward_per_token_stored # reward_per_token_stored
            /\ r.w.balances # balances
            /\ r.w.users # users

\* C8: of two consecutive non-compounding claims by one participant with no time
\* advance and no call between them, the first pays the whole settled reward (if
\* > 0) and the second pays exactly 0 and leaves rewards at 0.
C8_ClaimTwice ==
    [][(last'.op = "claim" /\ ~last'.compound /\ calls' = calls + 1) =>
        LET u == last'.user
            settled == read_user_info(World, u, WideZero).rewards + pending_of(World, now, u)
        IN  /\ settled > 0 => (last'.sent = settled /\ users'[u].rewards = 0)
            /\ (last.op = "claim" /\ ~last.compound /\ last.user = u)
                => /\ last'.sent = 0
                   /\ users'[u].rewards = 0
                   /\ balances' = balances]_vars

\* initialize, stake, advance, claim, claim: the user was paid by the first claim
\* and the second has paid 0
C8_Witness ==
    /\ calls = 5
    /\ last.op = "claim" /\ ~last.compound /\ last.sent = 0
    /\ HasConfig(World)
    /\ config[1].reward_token = "TKB"
    /\ balances["TKB"][last.user] > 0
    /\ users[last.user].rewards = 0

\* C9: with reward_rate >= 0, reward_per_token_stored never decreases, and it
\* increases only in a step taken when time has passed since last_update_time and
\* total_shares > 0.
C9_AccumulatorMonotone ==
    [][/\ WideLeq(reward_per_token_stored, reward_per_token_stored')
       /\ reward_per_token_stored' # reward_per_token_stored =>
            (now > last_update_time /\ total_shares > 0)]_vars

\* the accumulator has grown past one whole unit per share with two stakers
C9_Witness ==
    /\ reward_per_token_stored.hi > 0
    /\ reward_per_token_stored.lo > 0
    /\ DOMAIN users = Users
    /\ \A u \in Users : users[u].shares > 0

\* (r * 10^9) mod s, by repeated multiplication
RemScaled(r, s) == ((((((r % s) * 1000) % s) * 1000) % s) * 1000) % s

\* floor(s * floor(r * 10^9 / s) / 10^9) for 0 < s < 10^9: with r * 10^9 = q * s + m,
\* 0 <= m < s, it is floor((r * 10^9 - m) / 10^9), that is r when m = 0, else r - 1
SoleReward(s, r) == IF RemScaled(r, s) = 0 THEN r ELSE r - 1

\* C10: when one participant holds all shares S > 0 and dt seconds pass with no
\* other call, a non-compounding claim pays exactly
\* floor(S * floor(dt * reward_rate * 10^9 / S) / 10^9); in the test it pays 100.
C10_SoleStakerReward ==
    [][(/\ last'.op = "claim" /\ ~last'.compound /\ calls' = calls + 1
        /\ last'.user \in DOMAIN users
        /\ users[last'.user].shares = total_shares
        /\ total_shares > 0
        /\ users[last'.user].rewards = 0
        /\ users[last'.user].reward_per_token_paid = reward_per_token_stored) =>
        LET k == config[1].reward_token
            due == SoleReward(total_shares,
                              (now - last_update_time) * config[1].reward_rate)
        IN  /\ last'.sent = due
            /\ balances'[k][last'.user] = balances[k][last'.user] + due
            /\ (hist' = SubSeq(TestCalls, 1, 6) => due = 100)]_vars

\* the test's claim has paid 100 for 10 s at rate 10 on 3200 shares
C10_Witness ==
    /\ TestPrefix(6)
    /\ last.op = "claim" /\ last.sent = 100
    /\ total_shares = 3200
    /\ balances["TKA"]["u1"] = 998100

\* C11: unstake(amount) pays by the lock window of the participant's most recent
\* successful stake (start = time of that stake, duration = its lock_duration): at
\* a time before start + duration it transfers amount - floor(amount * 20 / 100),
\* at or after it the full amount; the position's amount drops by the full amount
\* either way, and 1000 unstaked ten seconds after a 30-day-lock stake pays 800.
C11_LockWindow ==
    [][\A a \in SoloUnstakeAmounts :
        UnstakeCall("u1", a) =>
            LET staked == Len(hist) = 1
                early == staked /\ now < hist[1].time + hist[1].lock_duration.hi * 65536
                                                      + hist[1].lock_duration.lo
                out == IF early THEN a - ((a * 20) \div 100) ELSE a
            IN  /\ last'.sent = out
                /\ balances'["TKA"]["u1"] = balances["TKA"]["u1"] + out
                /\ users'["u1"].amount = users["u1"].amount - a
                /\ (staked /\ a = 1000 /\ hist[1].lock_duration = Period
                        /\ now = hist[1].time + 10) => out = 800]_vars

\* the reward that accrual at the current time would still credit, over the users S
RECURSIVE SumPending(_)
SumPending(S) ==
    IF S = {} THEN 0
    ELSE LET u == CHOOSE x \in S : TRUE
         IN  pending_of(World, now, u) + SumPending(S \ {u})

\* C12: an interval with total_shares = 0 is never rewarded afterwards: a call that
\* runs accrual at time t while total_shares = 0 moves last_update_time to t, leaves
\* reward_per_token_stored as it is and credits nothing, and all reward credited or
\* still to be credited is at most reward_rate * (seconds during which
\* total_shares > 0), so a stake made after the interval earns from its own time on.
C12_NoRetroactiveReward ==
    /\ [](HasConfig(World) =>
            credited + SumPending(DOMAIN users)
                <= read_config(World).reward_rate * staked_time)
    /\ [][(/\ calls' = calls + 1
           /\ last'.op \in {"stake", "claim", "unstake", "slash"}
           /\ total_shares = 0) =>
            /\ last_update_time' = now
            /\ reward_per_token_stored' = reward_per_token_stored
            /\ credited' = credited]_vars

\* a stake made after an idle interval has been credited reward for its own time,
\* which is less than the time since initialization
C12_Witness ==
    /\ HasConfig(World)
    /\ credited > 0
    /\ staked_time > 0
    /\ staked_time < now - init_time
    /\ \E u \in DOMAIN users : users[u].lock_start_time > init_time /\ users[u].shares > 0
    /\ last.op = "claim"

\* the record a call by u starts from, and the reward its accrual settles: the
\* shares and reward_per_token_paid held before the call against the accumulator
\* the call leaves behind
PreInfo(u) == read_user_info(World, u, reward_per_token_stored')

Settled(u) ==
    Pending(PreInfo(u).shares, reward_per_token_stored', PreInfo(u).reward_per_token_paid)

\* C13 as stated: in every successful stake, compounding claim, unstake and slash
\* the call changes position.rewards by exactly floor(pre-call shares *
\* (reward_per_token_stored after accrual - pre-call reward_per_token_paid) / 10^9)
\* and leaves reward_per_token_paid equal to reward_per_token_stored.
C13_RewardsChangeIsPending ==
    [][(/\ calls' = calls + 1
        /\ \/ last'.op \in {"stake", "unstake", "slash"}
           \/ last'.op = "claim" /\ last'.compound) =>
        LET u == last'.user
        IN  /\ users'[u].rewards = PreInfo(u).rewards + Settled(u)
            /\ users'[u].reward_per_token_paid = reward_per_token_stored']_vars

\* C13 amended: the accrual of every successful stake, compounding claim, unstake
\* and slash settles exactly floor(pre-call shares * (reward_per_token_stored after
\* accrual - pre-call reward_per_token_paid) / 10^9), computed with the shares held
\* before the call: stake, unstake and slash add that to position.rewards, a
\* compounding claim folds the rewards so settled into amount and leaves rewards
\* at 0; afterwards reward_per_token_paid equals reward_per_token_stored.
C13_AccrualBeforeMutation ==
    [][(/\ calls' = calls + 1
        /\ \/ last'.op \in {"stake", "unstake", "slash"}
           \/ last'.op = "claim" /\ last'.compound) =>
        LET u == last'.user
            total == PreInfo(u).rewards + Settled(u)
        IN  /\ users'[u].reward_per_token_paid = reward_per_token_stored'
            /\ credited' = credited + Settled(u)
            /\ IF last'.op = "claim"
               THEN /\ users'[u].rewards = 0
                    /\ users'[u].amount = PreInfo(u).amount + total
               ELSE users'[u].rewards = total]_vars

\* a stake that changed the shares of a position has settled reward earned by the
\* shares held before it
C13_Witness ==
    /\ last.op = "stake"
    /\ users[last.user].lock_start_time = now
    /\ last_update_time = now
    /\ now > 0
    /\ users[last.user].rewards > 0
    /\ users[last.user].rewards = credited
    /\ DOMAIN users = Users

\* the calls a participant can make, as records, and their effect on a state w at
\* the current time
CallsOf(u) ==
    {[op |-> "stake", amount |-> in[1], lock_duration |-> in[2], tier_id |-> in[3],
      compound |-> FALSE] : in \in StakeInputs(u)}
    \cup {[op |-> "claim", amount |-> 0, lock_duration |-> NoLock, tier_id |-> 0,
           compound |-> c] : c \in CompoundInputs(u)}
    \cup {[op |-> o, amount |-> a, lock_duration |-> NoLock, tier_id |-> 0,
           compound |-> FALSE] : o \in {"unstake", "slash"}, a \in Amounts}
    \cup {[op |-> "emergency_withdraw", amount |-> 0, lock_duration |-> NoLock,
           tier_id |-> 0, compound |-> FALSE]}

Run(w, u, c) ==
    CASE c.op = "stake" -> stake(w, now, u, c.amount, c.lock_duration, c.tier_id)
      [] c.op = "claim" -> claim(w, now, u, c.compound)
      [] c.op = "unstake" -> unstake(w, now, u, c.amount)
      [] c.op = "slash" -> slash(w, now, u, c.amount)
      [] c.op = "emergency_withdraw" -> emergency_withdraw(w, u)

\* position.rewards plus the reward paid out or compounded by the call c of u that
\* led from w to r
RewardOf(w, u, c, r) ==
    r.w.users[u].rewards
    + (IF c.op = "claim" /\ ~c.compound THEN r.sent ELSE 0)
    + (IF c.op = "claim" /\ c.compound
       THEN r.w.users[u].amount - read_user_info(w, u, WideZero).amount ELSE 0)

\* C14: two calls (stake, claim, unstake, slash, emergency_withdraw) by two different
\* participants at the same timestamp credit each participant the same total reward
\* (position.rewards plus reward paid out or compounded) whichever runs first.
C14_OrderIndependent ==
    HasConfig(World) =>
        \A c1 \in CallsOf("u1"), c2 \in CallsOf("u2") :
            LET a1 == Run(World, "u1", c1)
                a2 == Run(a1.w, "u2", c2)
                b2 == Run(World, "u2", c2)
                b1 == Run(b2.w, "u1", c1)
            IN  (a1.ok /\ a2.ok /\ b2.ok /\ b1.ok) =>
                    /\ RewardOf(World, "u1", c1, a1) = RewardOf(b2.w, "u1", c1, b1)
                    /\ RewardOf(a1.w, "u2", c2, a2) = RewardOf(World, "u2", c2, b2)

\* C15: from the same state at the same time slash(p, a) and unstake(p, a) with
\* 0 < a <= position.amount leave identical position records and identical
\* total_shares, reward_per_token_stored and last_update_time; unstake moves the
\* (possibly penalised) amount from the contract to the participant, slash changes
\* no asset balance.
C15_SlashAsUnstake ==
    \A a \in SoloUnstakeAmounts \cup SoloSlashAmounts :
        (/\ HasConfig(World) /\ "u1" \in DOMAIN users
         /\ 0 < a /\ a <= users["u1"].amount) =>
            LET s == slash(World, now, "u1", a)
                u == unstake(World, now, "u1", a)
                i == users["u1"]
                early == now < i.lock_start_time + i.lock_duration.hi * 65536
                                                 + i.lock_duration.lo
                out == IF early THEN a - ((a * 20) \div 100) ELSE a
                k == config[1].staking_token
            IN  /\ s.ok
                /\ s.w.balances = balances
                /\ u.ok \/ u.err = "TransferFailed"
                /\ u.ok =>
                    /\ u.w.users = s.w.users
                    /\ u.w.total_shares = s.w.total_shares
                    /\ u.w.reward_per_token_stored = s.w.reward_per_token_stored
                    /\ u.w.last_update_time = s.w.last_update_time
                    /\ u.w.tiers = s.w.tiers /\ u.w.config = s.w.config
                    /\ u.w.balances[k]["u1"] = balances[k]["u1"] + out
                    /\ u.w.balances[k][Contract] = balances[k][Contract] - out
                    /\ \A k2 \in Tokens \ {k} : u.w.balances[k2] = balances[k2]

\* a state from which both calls settle reward, demote the position to tier 0 and,
\* for unstake, pay the penalised amount
C15_Witness ==
    /\ HasConfig(World) /\ "u1" \in DOMAIN users
    /\ \E a \in SoloUnstakeAmounts :
        LET s == slash(World, now, "u1", a)
            u == unstake(World, now, "u1", a)
        IN  /\ s.ok /\ u.ok
            /\ u.sent < a
            /\ s.w.users["u1"].rewards > users["u1"].rewards
            /\ users["u1"].tier_id = 1 /\ s.w.users["u1"].tier_id = 0
            /\ s.w.users["u1"].amount > 0

C17_SetTierFrame ==
    HasConfig(World) =>
        \A id \in TierIds, m \in MinAmounts, mult \in Multipliers :
            LET r == set_tier(World, id, m, mult)
                again == set_tier(r.w, id, m, mult)
            IN  /\ r.ok
                /\ DOMAIN r.w.tiers = (DOMAIN tiers) \cup {id}
                /\ r.w.tiers[id] = [min_amount |-> m, reward_multiplier |-> mult]
                /\ \A i \in (DOMAIN tiers) \ {id} : r.w.tiers[i] = tiers[i]
                /\ r.w.users = users
                /\ r.w.total_shares = total_shares
                /\ r.w.reward_per_token_stored = reward_per_token_stored
                /\ r.w.last_update_time = last_update_time
                /\ r.w.balances = balances
                /\ r.w.config = config
                /\ again.ok /\ again.w = r.w

\* set_tier has just changed the multiplier of tier 1 while a position is held in
\* it: the position still has the shares of the old multiplier
C17_Witness ==
    /\ last.op = "set_tier"
    /\ \E u \in DOMAIN users :
        /\ users[u].tier_id = 1 /\ users[u].amount > 0
        /\ users[u].shares # new_shares(users[u].amount, tiers[1], users[u].lock_duration)
    /\ total_shares = SumShares(users, DOMAIN users)

\* floor(amount * (multiplier + floor(lock_duration / 2,592,000) * 10) / 100)
SharesAt(info, tier) ==
    (info.amount * (tier.reward_multiplier
                    + ((info.lock_duration.hi * 65536 + info.lock_duration.lo)
                            \div 2592000) * 10)) \div 100

\* a set_tier has changed the multiplier of the position's tier since its shares
\* were last computed
TierChanged(u) ==
    /\ u \in DOMAIN users
    /\ users[u].tier_id \in DOMAIN tiers
    /\ users[u].shares # SharesAt(users[u], tiers[users[u].tier_id])

\* C18: after set_tier has changed the multiplier of tier t, the next successful
\* stake, claim (compounding or not), unstake or slash on a position held in t
\* leaves it with shares = floor(amount * (new multiplier + floor(lock_duration /
\* 2,592,000) * 10) / 100) and moves total_shares by the same difference (stated
\* for the calls that leave the position in tier t).
C18_TierAppliedOnNextCall ==
    [][(/\ calls' = calls + 1
        /\ last'.op \in {"stake", "claim", "unstake", "slash"}
        /\ TierChanged(last'.user)
        /\ users'[last'.user].tier_id = users[last'.user].tier_id) =>
        LET u == last'.user
        IN  /\ users'[u].shares = SharesAt(users'[u], tiers[users[u].tier_id])
            /\ total_shares' - total_shares = users'[u].shares - users[u].shares]_vars

RECURSIVE SumAmounts(_, _)
SumAmounts(us, S) ==
    IF S = {} THEN 0
    ELSE LET u == CHOOSE x \in S : TRUE
         IN  us[u].amount + SumAmounts(us, S \ {u})

\* C19: when the staking asset differs from the reward asset, after any sequence of
\* successful calls (slash with any signed amount not above the position's amount)
\* the amounts of all positions sum to at most the contract's balance of the
\* staking asset, and every position's amount is >= 0.
C19_PrincipalBacked ==
    (HasConfig(World) /\ config[1].staking_token # config[1].reward_token) =>
        /\ SumAmounts(users, DOMAIN users) <= balances[config[1].staking_token][Contract]
        /\ \A u \in DOMAIN users : users[u].amount >= 0

\* the record of u was reset without accrual: reward_per_token_paid is 0 while the
\* accumulator is not
WasReset(u) ==
    /\ u \in DOMAIN users
    /\ users[u].amount = 0
    /\ users[u].reward_per_token_paid = WideZero
    /\ reward_per_token_stored # WideZero

\* C20: no position's reward_per_token_paid exceeds reward_per_token_stored, and
\* the first accrual on a position that emergency_withdraw has reset
\* (reward_per_token_paid = 0, no accrual run) credits nothing for the time before:
\* it adds 0 to rewards, pays nothing and sets reward_per_token_paid to the current
\* reward_per_token_stored.
C20_ResetEarnsNothing ==
    /\ [](\A u \in DOMAIN users :
            WideLeq(users[u].reward_per_token_paid, reward_per_token_stored))
    /\ [][\A u \in Users :
            (/\ WasReset(u)
             /\ calls' = calls + 1
             /\ last'.user = u
             /\ last'.op \in {"stake", "claim", "unstake", "slash"}) =>
                /\ users'[u].rewards = 0
                /\ users'[u].reward_per_token_paid = reward_per_token_stored'
                /\ credited' = credited
                /\ last'.sent = 0]_vars

\* emergency_withdraw has just reset a position after the accumulator had grown,
\* and a stake that re-creates the position from here starts with no rewards at
\* the current accumulator
C20_Witness ==
    /\ last.op = "emergency_withdraw"
    /\ WasReset(last.user)
    /\ now > last_update_time
    /\ total_shares > 0
    /\ LET r == stake(World, now, last.user, 1, NoLock, 0)
       IN  /\ r.ok
           /\ r.w.users[last.user].shares = 1
           /\ r.w.users[last.user].rewards = 0
           /\ r.w.users[last.user].reward_per_token_paid = r.w.reward_per_token_stored
           /\ r.w.reward_per_token_stored # reward_per_token_stored

====
